---- MODULE Spec2Model ----
(***************************************************************************)
(* Model of pack_bins_optimized (src/binpacker-algo3.py): a best-fit bin   *)
(* packer with a per-truck affinity bias.  One run of the function is one  *)
(* behaviour: the inputs are chosen in Init, Sort is the pre-sort, each    *)
(* iteration of the placement loop is one step, Finish builds the Bin      *)
(* column and the summary table.                                           *)
(* Python's 0-based positions (row index, bin index) are 1-based here, so  *)
(* a bin's position in `bins` is also its bin number.                      *)
(***************************************************************************)
EXTENDS Integers, Sequences, FiniteSets

VARIABLES
    df,                 \* the input rows, in input order
    max_bin_weight,
    min_bin_weight,
    max_items_per_bin,
    sorted_df,          \* rows after sort_values(...).reset_index(drop=True)
    index,              \* the row the loop of line 18 handles next
    bins,               \* list of lists of row indices
    bin_weights_gross,
    bin_weights_nett,
    bin_items_count,
    truck_bins,         \* dict TruckNumber -> bin index
    bin_column,         \* sorted_df["Bin"]
    bin_summary,        \* the summary table, one row per bin
    pc,                 \* "start", "loop", "done", "failed"
    last                \* history: the state the latest placement started from

vars == <<df, max_bin_weight, min_bin_weight, max_items_per_bin, sorted_df,
          index, bins, bin_weights_gross, bin_weights_nett, bin_items_count,
          truck_bins, bin_column, bin_summary, pc, last>>

----------------------------------------------------------------------------
(* Bounds of the model *)

MaxLen == 3      \* longest input list
Cap == 4         \* max_bin_weight of the small inputs; weights range over 0..Cap+1

(* Defaults of the number inputs, used by the scenario input *)
DefaultMaxBinWeight == 26500
DefaultMinBinWeight == 18000
DefaultMaxItemsPerBin == 10

Trucks == {1, 2}

Row(t, g, n) == [TruckNumber |-> t, GrossWeight |-> g, NettWeight |-> n]

(* small rows: every gross weight up to one above the capacity, the nett
   weight one below the gross weight *)
SmallRows == {Row(t, g, IF g = 0 THEN 0 ELSE g - 1) : t \in Trucks, g \in 0..(Cap + 1)}

SeqsUpTo(S, n) == UNION {[1..k -> S] : k \in 0..n}

(* Scenario of the specification: trucks A, A, B are 1, 1, 2 *)
ScenarioDf == <<Row(1, 20000, 19000), Row(1, 8000, 7000), Row(2, 15000, 14000)>>

----------------------------------------------------------------------------
(* Pre-sort: by TruckNumber ascending, then GrossWeight descending, stable *)

SortsBeforeAscending(a, b) ==
    \/ a.TruckNumber < b.TruckNumber
    \/ a.TruckNumber = b.TruckNumber /\ a.GrossWeight < b.GrossWeight

SortsBefore(a, b) ==
    \/ a.TruckNumber < b.TruckNumber
    \/ a.TruckNumber = b.TruckNumber /\ a.GrossWeight > b.GrossWeight

RECURSIVE InsertRow(_, _)
InsertRow(s, x) ==
    IF s = <<>> THEN <<x>>
    ELSE IF SortsBefore(x, Head(s)) THEN <<x>> \o s
    ELSE <<Head(s)>> \o InsertRow(Tail(s), x)

RECURSIVE SortRows(_)
SortRows(s) ==
    IF s = <<>> THEN <<>>
    ELSE InsertRow(SortRows(SubSeq(s, 1, Len(s) - 1)), s[Len(s)])

----------------------------------------------------------------------------
(* Best-fit scan, lines 23-34 *)

None == 0        \* best_fit_bin = None; bin indices start at 1

Inf == [inf |-> TRUE, v |-> 0]       \* float("inf")

Finite(n) == [inf |-> FALSE, v |-> n]

LessThan(n, m) == m.inf \/ n < m.v   \* n < m for an integer n and a float m

(* the condition of lines 28-32 for bin i, with the minimum seen so far *)
ScanAcceptsLastWins(i, row, min_remaining_space) ==
    /\ bin_weights_gross[i] + row.GrossWeight <= max_bin_weight
    /\ bin_items_count[i] < max_items_per_bin
    /\ \/ min_remaining_space.inf
       \/ max_bin_weight - bin_weights_gross[i] <= min_remaining_space.v

ScanAccepts(i, row, min_remaining_space) ==
    /\ bin_weights_gross[i] + row.GrossWeight <= max_bin_weight
    /\ bin_items_count[i] < max_items_per_bin
    /\ LessThan(max_bin_weight - bin_weights_gross[i], min_remaining_space)

(* the loop of line 26 from bin i on; the result is the final best_fit_bin *)
RECURSIVE Scan(_, _, _, _)
Scan(i, row, best, min_remaining_space) ==
    IF i > Len(bins) THEN best
    ELSE IF ScanAccepts(i, row, min_remaining_space)
         THEN Scan(i + 1, row, i, Finite(max_bin_weight - bin_weights_gross[i]))
         ELSE Scan(i + 1, row, best, min_remaining_space)

best_fit_bin(row) == Scan(1, row, None, Inf)

----------------------------------------------------------------------------
(* Placement, lines 36-64 *)

(* lines 37-42: the truck has a bin and that bin takes the row *)
TruckBinFitsNoWeightCheck(row) ==
    /\ row.TruckNumber \in DOMAIN truck_bins
    /\ bin_items_count[truck_bins[row.TruckNumber]] < max_items_per_bin

TruckBinFitsNoCountCheck(row) ==
    /\ row.TruckNumber \in DOMAIN truck_bins
    /\ bin_weights_gross[truck_bins[row.TruckNumber]] + row.GrossWeight <= max_bin_weight

TruckBinFits(row) ==
    /\ row.TruckNumber \in DOMAIN truck_bins
    /\ bin_weights_gross[truck_bins[row.TruckNumber]] + row.GrossWeight <= max_bin_weight
    /\ bin_items_count[truck_bins[row.TruckNumber]] < max_items_per_bin

(* which of the three blocks (lines 37, 50, 59) places the row *)
BranchBestFitFirst(row) ==
    IF best_fit_bin(row) # None THEN "bestfit"
    ELSE IF TruckBinFits(row) THEN "truck"
    ELSE "new"

BranchNoBestFit(row) ==
    IF TruckBinFits(row) THEN "truck" ELSE "new"

Branch(row) ==
    IF TruckBinFits(row) THEN "truck"
    ELSE IF best_fit_bin(row) # None THEN "bestfit"
    ELSE "new"

(* bins[b].append(index) *)
AppendIndexReplaces(b) == [bins EXCEPT ![b] = <<index>>]

AppendIndex(b) == [bins EXCEPT ![b] = Append(@, index)]

(* bin_weights_gross[b] += row["GrossWeight"] *)
AddGrossUsesNett(b, row) == [bin_weights_gross EXCEPT ![b] = @ + row.NettWeight]

AddGross(b, row) == [bin_weights_gross EXCEPT ![b] = @ + row.GrossWeight]

(* bin_weights_nett[b] += row["NettWeight"] *)
AddNett(b, row) == [bin_weights_nett EXCEPT ![b] = @ + row.NettWeight]

(* bin_items_count[b] += 1 *)
AddCount(b) == [bin_items_count EXCEPT ![b] = @ + 1]

(* truck_bins[truck] = b *)
AssignTruckKeepsOld(truck, b) ==
    [t \in DOMAIN truck_bins \cup {truck} |->
        IF t \in DOMAIN truck_bins THEN truck_bins[t] ELSE b]

AssignTruck(truck, b) ==
    [t \in DOMAIN truck_bins \cup {truck} |-> IF t = truck THEN b ELSE truck_bins[t]]

(* history of the step: the lists as they were when the iteration began *)
Snapshot(branch, b) ==
    [branch |-> branch, index |-> index, bin |-> b, bins |-> bins,
     gross |-> bin_weights_gross, count |-> bin_items_count,
     truck_bins |-> truck_bins]

NoStep ==
    [branch |-> "none", index |-> 0, bin |-> 0, bins |-> <<>>,
     gross |-> <<>>, count |-> <<>>, truck_bins |-> <<>>]

----------------------------------------------------------------------------
(* Bin numbers and summary, lines 66-85 *)

(* lines 67-70: a later bin overwrites an earlier one *)
RECURSIVE bin_assignment(_)
bin_assignment(n) ==
    IF n = 0 THEN <<>>
    ELSE LET before == bin_assignment(n - 1)
             here == {bins[n][k] : k \in 1..Len(bins[n])}
         IN [idx \in DOMAIN before \cup here |->
                IF idx \in here THEN n ELSE before[idx]]

(* line 83 *)
BelowMinInclusive(total) == total <= min_bin_weight

BelowMin(total) == total < min_bin_weight

(* lines 75-83 *)
Summary ==
    [b \in 1..Len(bins) |->
        [Bin |-> b,
         TotalGrossWeight |-> bin_weights_gross[b],
         TotalNettWeight |-> bin_weights_nett[b],
         ItemsCount |-> bin_items_count[b],
         BelowMinWeight |-> BelowMin(bin_weights_gross[b])]]

----------------------------------------------------------------------------
(* The run *)

Init ==
    /\ \/ /\ df \in SeqsUpTo(SmallRows, MaxLen)
          /\ max_bin_weight = Cap
          /\ min_bin_weight = Cap \div 2
          /\ max_items_per_bin \in {1, 2}
       \/ /\ df = ScenarioDf
          /\ max_bin_weight = DefaultMaxBinWeight
          /\ min_bin_weight = DefaultMinBinWeight
          /\ max_items_per_bin = DefaultMaxItemsPerBin
    /\ sorted_df = <<>>
    /\ index = 0
    /\ bins = <<>>
    /\ bin_weights_gross = <<>>
    /\ bin_weights_nett = <<>>
    /\ bin_items_count = <<>>
    /\ truck_bins = <<>>
    /\ bin_column = <<>>
    /\ bin_summary = <<>>
    /\ pc = "start"
    /\ last = NoStep

(* lines 9-16 *)
Sort ==
    /\ pc = "start"
    /\ sorted_df' = SortRows(df)
    /\ index' = 1
    /\ pc' = "loop"
    /\ UNCHANGED <<df, max_bin_weight, min_bin_weight, max_items_per_bin, bins,
                   bin_weights_gross, bin_weights_nett, bin_items_count,
                   truck_bins, bin_column, bin_summary, last>>

(* one iteration of the loop of line 18, placing in the truck's bin: 37-47 *)
PlaceInTruckBin ==
    /\ pc = "loop"
    /\ index <= Len(sorted_df)
    /\ LET row == sorted_df[index]
           bin_idx == truck_bins[row.TruckNumber]
       IN /\ Branch(row) = "truck"
          /\ bins' = AppendIndex(bin_idx)
          /\ bin_weights_gross' = AddGross(bin_idx, row)
          /\ bin_weights_nett' = AddNett(bin_idx, row)
          /\ bin_items_count' = AddCount(bin_idx)
          /\ last' = Snapshot("truck", bin_idx)
    /\ index' = index + 1
    /\ UNCHANGED <<df, max_bin_weight, min_bin_weight, max_items_per_bin,
                   sorted_df, truck_bins, bin_column, bin_summary, pc>>

(* one iteration placing in the best-fit bin: 50-56 *)
PlaceInBestFitBin ==
    /\ pc = "loop"
    /\ index <= Len(sorted_df)
    /\ LET row == sorted_df[index]
           b == best_fit_bin(row)
       IN /\ Branch(row) = "bestfit"
          /\ bins' = AppendIndex(b)
          /\ bin_weights_gross' = AddGross(b, row)
          /\ bin_weights_nett' = AddNett(b, row)
          /\ bin_items_count' = AddCount(b)
          /\ truck_bins' = AssignTruck(row.TruckNumber, b)
          /\ last' = Snapshot("bestfit", b)
    /\ index' = index + 1
    /\ UNCHANGED <<df, max_bin_weight, min_bin_weight, max_items_per_bin,
                   sorted_df, bin_column, bin_summary, pc>>

(* one iteration creating a bin: 59-64 *)
PlaceInNewBin ==
    /\ pc = "loop"
    /\ index <= Len(sorted_df)
    /\ LET row == sorted_df[index]
       IN /\ Branch(row) = "new"
          /\ bins' = Append(bins, <<index>>)
          /\ bin_weights_gross' = Append(bin_weights_gross, row.GrossWeight)
          /\ bin_weights_nett' = Append(bin_weights_nett, row.NettWeight)
          /\ bin_items_count' = Append(bin_items_count, 1)
          /\ truck_bins' = AssignTruck(row.TruckNumber, Len(bins) + 1)
          /\ last' = Snapshot("new", Len(bins) + 1)
    /\ index' = index + 1
    /\ UNCHANGED <<df, max_bin_weight, min_bin_weight, max_items_per_bin,
                   sorted_df, bin_column, bin_summary, pc>>

(* lines 66-85; line 72 raises KeyError for a row no bin holds *)
Finish ==
    /\ pc = "loop"
    /\ index > Len(sorted_df)
    /\ LET assignment == bin_assignment(Len(bins))
       IN IF \A idx \in 1..Len(sorted_df) : idx \in DOMAIN assignment
          THEN /\ bin_column' = [idx \in 1..Len(sorted_df) |-> assignment[idx]]
               /\ bin_summary' = Summary
               /\ pc' = "done"
          ELSE /\ UNCHANGED <<bin_column, bin_summary>>
               /\ pc' = "failed"
    /\ UNCHANGED <<df, max_bin_weight, min_bin_weight, max_items_per_bin,
                   sorted_df, index, bins, bin_weights_gross, bin_weights_nett,
                   bin_items_count, truck_bins, last>>

Next == Sort \/ PlaceInTruckBin \/ PlaceInBestFitBin \/ PlaceInNewBin \/ Finish

Spec == Init /\ [][Next]_vars

----------------------------------------------------------------------------
(* Vocabulary of the properties, computed from the rows and the index      *)
(* lists, not from the running totals                                      *)

Elems(s) == {s[k] : k \in 1..Len(s)}

RECURSIVE SumGrossOf(_)
SumGrossOf(s) ==
    IF s = <<>> THEN 0 ELSE sorted_df[Head(s)].GrossWeight + SumGrossOf(Tail(s))

RECURSIVE SumNettOf(_)
SumNettOf(s) ==
    IF s = <<>> THEN 0 ELSE sorted_df[Head(s)].NettWeight + SumNettOf(Tail(s))

Occurrences(s, x) == Cardinality({k \in 1..Len(s) : s[k] = x})

(* the places (bin, position) that hold row idx *)
Holders(idx) ==
    {<<b, k>> \in (1..Len(bins)) \X (1..Len(sorted_df)) :
        k <= Len(bins[b]) /\ bins[b][k] = idx}

Running == pc \in {"loop", "done", "failed"}

Stepped == last.branch # "none"

StepRow == sorted_df[last.index]

(* the bins that could take the row of the latest step when it began *)
EligibleBefore ==
    {b \in 1..Len(last.bins) :
        /\ last.gross[b] + StepRow.GrossWeight <= max_bin_weight
        /\ last.count[b] < max_items_per_bin}

AffinityAppliedBefore ==
    /\ StepRow.TruckNumber \in DOMAIN last.truck_bins
    /\ last.truck_bins[StepRow.TruckNumber] \in EligibleBefore

Oversized(idx) == sorted_df[idx].GrossWeight > max_bin_weight

NoOversizedInput == \A i \in 1..Len(df) : df[i].GrossWeight <= max_bin_weight

IsScenario ==
    /\ df = ScenarioDf
    /\ max_bin_weight = 26500
    /\ max_items_per_bin = 10
    /\ min_bin_weight = 18000

RowsOf(b) == [k \in 1..Len(bins[b]) |-> sorted_df[bins[b][k]]]

----------------------------------------------------------------------------
(* C1: after every placement step and in the result, every bin holds at    *)
(* most max_items_per_bin rows, and, when no input row is heavier than     *)
(* max_bin_weight, every bin's total gross weight is at most               *)
(* max_bin_weight.                                                         *)
C1_Capacity ==
    /\ \A b \in 1..Len(bins) :
        /\ bin_items_count[b] <= max_items_per_bin
        /\ Len(bins[b]) <= max_items_per_bin
        /\ NoOversizedInput =>
              /\ bin_weights_gross[b] <= max_bin_weight
              /\ SumGrossOf(bins[b]) <= max_bin_weight
    /\ pc = "done" =>
          \A r \in 1..Len(bin_summary) :
              /\ bin_summary[r].ItemsCount <= max_items_per_bin
              /\ NoOversizedInput => bin_summary[r].TotalGrossWeight <= max_bin_weight

C1_Witness ==
    /\ pc = "done"
    /\ NoOversizedInput
    /\ Len(bins) >= 2
    /\ \E b \in 1..Len(bins) : Len(bins[b]) = max_items_per_bin /\ Len(bins[b]) >= 2
    /\ \E b \in 1..Len(bins) : SumGrossOf(bins[b]) = max_bin_weight

(* C2: when the run finishes, the sorted rows are a rearrangement of the   *)
(* input rows, every row is held by exactly one place of exactly one bin,  *)
(* and its Bin number is that bin; the run never fails for a missing row.  *)
C2_Conservation ==
    /\ pc # "failed"
    /\ pc = "done" =>
          /\ Len(sorted_df) = Len(df)
          /\ \A x \in Elems(df) \cup Elems(sorted_df) :
                Occurrences(sorted_df, x) = Occurrences(df, x)
          /\ DOMAIN bin_column = 1..Len(df)
          /\ \A b \in 1..Len(bins) : Elems(bins[b]) \subseteq 1..Len(sorted_df)
          /\ \A idx \in 1..Len(sorted_df) :
                /\ Cardinality(Holders(idx)) = 1
                /\ \A h \in Holders(idx) : bin_column[idx] = h[1]

C2_Witness ==
    /\ pc = "done"
    /\ Len(df) >= 3
    /\ sorted_df # df
    /\ Len(bins) >= 2
    /\ \E b \in 1..Len(bins) : Len(bins[b]) >= 2

(* C3: when the row just placed has the same truck as the row before it    *)
(* and the bin holding that earlier row could still take the new row when  *)
(* the step began, the new row is in that bin.                             *)
C3_AffinityPreference ==
    (Stepped /\ last.index >= 2
        /\ StepRow.TruckNumber = sorted_df[last.index - 1].TruckNumber) =>
    \A b \in EligibleBefore :
        (last.index - 1) \in Elems(last.bins[b]) => last.index \in Elems(bins[b])

C3_Witness ==
    /\ Stepped
    /\ last.index >= 2
    /\ StepRow.TruckNumber = sorted_df[last.index - 1].TruckNumber
    /\ \E b \in EligibleBefore :
        /\ (last.index - 1) \in Elems(last.bins[b])
        /\ last.index \in Elems(bins[b])
        /\ \E e \in EligibleBefore : last.gross[e] > last.gross[b]

(* C4 as stated: the scenario yields bin 1 = {item1}, total 20000, flagged *)
(* below the minimum, and bin 2 = {item2, item3}, total 23000, not         *)
(* flagged.                                                                *)
C4_AsStated ==
    (IsScenario /\ pc = "done") =>
        /\ Len(bins) = 2
        /\ Len(bin_summary) = 2
        /\ RowsOf(1) = <<ScenarioDf[1]>>
        /\ Elems(RowsOf(2)) = {ScenarioDf[2], ScenarioDf[3]}
        /\ Len(bins[2]) = 2
        /\ bin_summary[1].TotalGrossWeight = 20000
        /\ bin_summary[1].BelowMinWeight = TRUE
        /\ bin_summary[2].TotalGrossWeight = 23000
        /\ bin_summary[2].BelowMinWeight = FALSE

(* C4 amended: the scenario yields bin 1 = {item1}, total 20000, and       *)
(* bin 2 = {item2, item3}, total 23000; neither bin is flagged below the   *)
(* minimum of 18000.                                                       *)
C4_Scenario ==
    (IsScenario /\ pc = "done") =>
        /\ Len(bins) = 2
        /\ Len(bin_summary) = 2
        /\ RowsOf(1) = <<ScenarioDf[1]>>
        /\ Elems(RowsOf(2)) = {ScenarioDf[2], ScenarioDf[3]}
        /\ Len(bins[2]) = 2
        /\ bin_column = <<1, 2, 2>>
        /\ bin_summary[1].TotalGrossWeight = 20000
        /\ bin_summary[1].BelowMinWeight = FALSE
        /\ bin_summary[2].TotalGrossWeight = 23000
        /\ bin_summary[2].BelowMinWeight = FALSE

C4_Witness == IsScenario /\ pc = "done" /\ Len(bin_summary) = 2

(* C5: the summary has one row per bin, and a row is flagged exactly when  *)
(* the gross weights of the rows in its bin add up to strictly less than   *)
(* min_bin_weight; a flagged bin does not stop the run from finishing.     *)
C5_BelowMinFlag ==
    /\ pc # "failed"
    /\ pc = "done" =>
          /\ Len(bin_summary) = Len(bins)
          /\ \A r \in 1..Len(bin_summary) :
                bin_summary[r].BelowMinWeight <=> (SumGrossOf(bins[r]) < min_bin_weight)

C5_Witness ==
    /\ pc = "done"
    /\ \E r \in 1..Len(bin_summary) :
        bin_summary[r].TotalGrossWeight = min_bin_weight /\ ~bin_summary[r].BelowMinWeight
    /\ \E r \in 1..Len(bin_summary) :
        bin_summary[r].TotalGrossWeight < min_bin_weight /\ bin_summary[r].BelowMinWeight
    /\ \E r \in 1..Len(bin_summary) :
        bin_summary[r].TotalGrossWeight > min_bin_weight /\ ~bin_summary[r].BelowMinWeight

(* C6: after every placement step and in the summary, a bin's gross total  *)
(* is the sum of the gross weights of its rows, its nett total the sum of  *)
(* their nett weights, and its count the number of its indices, at least   *)
(* one.                                                                    *)
C6_Accumulators ==
    /\ Len(bin_weights_gross) = Len(bins)
    /\ Len(bin_weights_nett) = Len(bins)
    /\ Len(bin_items_count) = Len(bins)
    /\ \A b \in 1..Len(bins) :
        /\ bin_weights_gross[b] = SumGrossOf(bins[b])
        /\ bin_weights_nett[b] = SumNettOf(bins[b])
        /\ bin_items_count[b] = Len(bins[b])
        /\ bin_items_count[b] >= 1
    /\ pc = "done" =>
          \A r \in 1..Len(bin_summary) :
              /\ bin_summary[r].TotalGrossWeight = SumGrossOf(bins[r])
              /\ bin_summary[r].TotalNettWeight = SumNettOf(bins[r])
              /\ bin_summary[r].ItemsCount = Len(bins[r])

C6_Witness ==
    /\ pc = "done"
    /\ Len(bins) >= 2
    /\ \E b \in 1..Len(bins) :
        /\ Len(bins[b]) >= 2
        /\ SumNettOf(bins[b]) # SumGrossOf(bins[b])
        /\ SumNettOf(bins[b]) > 0

C8_NewBinOnlyWhenNeeded ==
    Stepped =>
        /\ Len(bins) >= Len(last.bins)
        /\ EligibleBefore # {} => Len(bins) = Len(last.bins)
        /\ Len(bins) > Len(last.bins) =>
              /\ EligibleBefore = {}
              /\ Len(bins) = Len(last.bins) + 1
              /\ bins[Len(bins)] = <<last.index>>
        /\ \A b \in 1..Len(last.bins) :
              bins[b] \in {last.bins[b], Append(last.bins[b], last.index)}

C8_Witness ==
    /\ Stepped
    /\ Len(last.bins) >= 2
    /\ Len(bins) = Len(last.bins) + 1
    /\ \E b \in 1..Len(last.bins) : last.count[b] < max_items_per_bin

(* C9: after every placement step the affinity map has an entry exactly    *)
(* for the trucks placed so far, each entry is an existing bin, and it is  *)
(* the bin holding the latest placed row of that truck.                    *)
C9_AffinityTracksBin ==
    Running =>
        /\ DOMAIN truck_bins = {sorted_df[i].TruckNumber : i \in 1..(index - 1)}
        /\ \A t \in DOMAIN truck_bins :
            /\ truck_bins[t] \in 1..Len(bins)
            /\ \A i \in 1..(index - 1) :
                (/\ sorted_df[i].TruckNumber = t
                 /\ \A j \in (i + 1)..(index - 1) : sorted_df[j].TruckNumber # t)
                => i \in Elems(bins[truck_bins[t]])

C9_Witness ==
    /\ Stepped
    /\ last.branch = "bestfit"
    /\ StepRow.TruckNumber \in DOMAIN last.truck_bins
    /\ last.truck_bins[StepRow.TruckNumber] # truck_bins[StepRow.TruckNumber]

(* C10: a row heavier than max_bin_weight does not fail the run; it is     *)
(* placed in a new bin, that bin never holds another row, and every bin    *)
(* without such a row has a total of at most max_bin_weight.               *)
C10_Oversized ==
    /\ pc # "failed"
    /\ (Stepped /\ Oversized(last.index)) =>
          /\ Len(bins) = Len(last.bins) + 1
          /\ bins[Len(bins)] = <<last.index>>
    /\ \A b \in 1..Len(bins) :
        IF \E idx \in Elems(bins[b]) : Oversized(idx)
        THEN Len(bins[b]) = 1 /\ bin_weights_gross[b] > max_bin_weight
        ELSE bin_weights_gross[b] <= max_bin_weight
    /\ pc = "done" =>
          \A idx \in 1..Len(sorted_df) :
              Oversized(idx) =>
                  /\ bins[bin_column[idx]] = <<idx>>
                  /\ bin_summary[bin_column[idx]].TotalGrossWeight > max_bin_weight

C10_Witness ==
    /\ pc = "done"
    /\ Len(bins) >= 2
    /\ \E idx \in 1..Len(sorted_df) :
        /\ Oversized(idx)
        /\ idx < Len(sorted_df)
        /\ sorted_df[idx + 1].TruckNumber = sorted_df[idx].TruckNumber
        /\ sorted_df[Len(sorted_df)].GrossWeight = 0

====
